---------------------------- MODULE Spec2Model ----------------------------
(***************************************************************************)
(* house-mapper: the listing-to-map rendering pipeline of the HouseMap     *)
(* component, in its two variants:                                         *)
(*   "nested"  src/src/components/HouseMap.vue  (records with a `property` *)
(*             field, embedded coordinates, no geocoding)                  *)
(*   "flat"    src/unnamed/part_000             (records with a free-text  *)
(*             address, one geocoding lookup per listing)                  *)
(* Several component instances (sessions) live in one page: they share the *)
(* window (the SDK), the document (#map elements) and the JS thread.       *)
(***************************************************************************)
EXTENDS Integers, Sequences, FiniteSets, TLC

\* ------------------------------------------------------------- bounds ---
MaxHouses == 2
\* The longest description escapeHtml is applied to, in characters.
MaxChars == 2
\* The longest address normalizeAddress is applied to, in tokens.
MaxTokens == 3

\* The component instances of the page: the instances are interchangeable,
\* so they are numbered in the order in which they are mounted.
Sessions == {1, 2}

\* ---------------------------------------------------------- JS values ---
Undefined == [type |-> "undefined"]
Num(n) == [type |-> "number", val |-> n]
Str(s) == [type |-> "string", val |-> s]
Obj(r) == [type |-> "object", val |-> r]

\* JS truthiness (`!x`, `a && b`): undefined, 0 and '' are falsy.
Truthy(v) ==
  CASE v.type = "undefined" -> FALSE
    [] v.type = "number" -> v.val # 0
    [] v.type = "string" -> v.val # <<>>
    [] OTHER -> TRUE

IsString(v) == v.type = "string"

\* `o.f` / `o?.f` on a value that may be undefined: undefined propagates.
Field(o, f) == IF o.type = "object" /\ f \in DOMAIN o.val THEN o.val[f] ELSE Undefined

NoMap == "null"
\* The JS thread: the set holding the session whose synchronous code runs.
Idle == {}

\* --------------------------------------------------- normalizeAddress ---
\* A string is a sequence of tokens; a token is a word (a maximal run of \w
\* characters) or a single separator character.
Separators == {" ", ",", "#", "."}
IsWord(t) == t \notin Separators

\* Case folding of the vocabulary (the `i` flag of the RegExp).
Lower(t) ==
  CASE t \in {"Rd", "RD", "rd"} -> "rd"
    [] t \in {"Ln", "ln"} -> "ln"
    [] t \in {"Dr", "dr"} -> "dr"
    [] t \in {"St", "st", "ST"} -> "st"
    [] t \in {"Ave", "ave"} -> "ave"
    [] t \in {"Blvd", "blvd"} -> "blvd"
    [] t \in {"Hwy", "hwy", "HWY"} -> "hwy"
    [] t \in {"CR", "cr", "Cr"} -> "cr"
    [] t \in {"Vz", "vz", "VZ"} -> "vz"
    [] t \in {"Us", "US", "us"} -> "us"
    [] t \in {"Highway", "highway"} -> "highway"
    [] OTHER -> t

\* The replacement table, in the iteration order of Object.entries.
replacements ==
  << [key |-> <<"Rd">>, value |-> <<"Road">>],
     [key |-> <<"Ln">>, value |-> <<"Lane">>],
     [key |-> <<"Dr">>, value |-> <<"Drive">>],
     [key |-> <<"St">>, value |-> <<"Street">>],
     [key |-> <<"Ave">>, value |-> <<"Avenue">>],
     [key |-> <<"Blvd">>, value |-> <<"Boulevard">>],
     [key |-> <<"Hwy">>, value |-> <<"Highway">>],
     [key |-> <<"CR">>, value |-> <<"County", " ", "Road">>],
     [key |-> <<"Vz", " ", "CR">>, value |-> <<"Vz", " ", "County", " ", "Road">>],
     [key |-> <<"Us", " ", "Highway">>, value |-> <<"US", " ", "Hwy">>],
     [key |-> <<"#">>, value |-> <<>>] >>

\* \b at the gap before position p of toks (1..Len+1): exactly one of the
\* two neighbouring characters is a word character.
WordBefore(toks, p) == p > 1 /\ IsWord(toks[p - 1])
WordAt(toks, p) == p <= Len(toks) /\ IsWord(toks[p])
Boundary(toks, p) == WordBefore(toks, p) # WordAt(toks, p)

\* new RegExp(`\\b${key}\\b`, 'gi') matches toks at position p.
MatchesAt(toks, key, p) ==
  /\ p + Len(key) - 1 <= Len(toks)
  /\ \A k \in 1..Len(key) : Lower(toks[p + k - 1]) = Lower(key[k])
  /\ Boundary(toks, p)
  /\ Boundary(toks, p + Len(key))

RECURSIVE ReplaceFrom(_, _, _, _)
\* String.prototype.replace with a global RegExp: left to right, non-overlapping.
ReplaceFrom(toks, key, value, p) ==
  IF p > Len(toks) THEN <<>>
  ELSE IF MatchesAt(toks, key, p)
       THEN value \o ReplaceFrom(toks, key, value, p + Len(key))
       ELSE <<toks[p]>> \o ReplaceFrom(toks, key, value, p + 1)

RECURSIVE TrimLeft(_)
TrimLeft(toks) ==
  IF toks # <<>> /\ Head(toks) = " " THEN TrimLeft(Tail(toks)) ELSE toks

RECURSIVE TrimRight(_)
TrimRight(toks) ==
  IF toks # <<>> /\ toks[Len(toks)] = " "
  THEN TrimRight(SubSeq(toks, 1, Len(toks) - 1)) ELSE toks

Trim(toks) == TrimRight(TrimLeft(toks))

RECURSIVE ApplyReplacements(_, _)
ApplyReplacements(toks, k) ==
  IF k > Len(replacements) THEN toks
  ELSE ApplyReplacements(
         ReplaceFrom(toks, replacements[k].key, replacements[k].value, 1), k + 1)

\* normalizeAddress(address), address a JS value (string or undefined).
normalizeAddress(address) ==
  IF ~Truthy(address) THEN address
  ELSE Str(ApplyReplacements(Trim(address.val), 1))


\* ---------------------------------------------------------- listings ---
\* A listing is the JSON value of one entry of props.houses. Reading a field
\* the record does not carry yields undefined. Two more fields describe how
\* the external collaborators answer for this listing:
\*   geo  whether the geocoding service knows its address ("hit") or the
\*        lookup comes back empty or fails ("miss")
\*   sdk  whether the mapping SDK accepts the marker and popup built for it
Coord(la, ln) == [lat |-> Num(la), lng |-> Num(ln)]

GeoHit == [status |-> "ok", results |-> <<Coord(31, -96), Coord(32, -97)>>]
GeoEmpty == [status |-> "ok", results |-> <<>>]
GeoError == [status |-> "error", results |-> <<>>]

OakRd == Str(<<"12", " ", "Oak", " ", "Rd">>)

NestedAddress(zip) ==
  Obj([streetAddress |-> OakRd, city |-> Str(<<"Houston">>),
       state |-> Str(<<"TX">>), zipcode |-> zip])

NestedListing(addr, la, ln, desc, sdkOutcome) ==
  [property |-> Obj([address |-> addr, latitude |-> la, longitude |-> ln,
                     description |-> desc]),
   address |-> Undefined, latitude |-> Undefined, longitude |-> Undefined,
   geo |-> "hit", sdk |-> sdkOutcome]

FlatListing(addr, la, ln, geoAnswer, sdkOutcome) ==
  [property |-> Undefined,
   address |-> addr, latitude |-> la, longitude |-> ln,
   geo |-> geoAnswer, sdk |-> sdkOutcome]

Zip == Str(<<"77001">>)
Text == Str(<<"Nice", " ", "house">>)

\* The listings of the input file, by name: those the nested component
\* (HouseMap.vue) is run on and those the flat component (part_000) is run on.
NestedListings ==
  {"N_ok", "N_latZero", "N_noZip", "N_noCoords", "N_numDescription",
   "N_markerThrows"}

FlatListings ==
  {"F_hit", "F_missWithCoords", "F_noAddress", "F_markerThrows",
   "F_popupThrows"}

Listing(name) ==
  CASE name = "N_ok" ->
         NestedListing(NestedAddress(Zip), Num(30), Num(-95), Text, "ok")
    [] name = "N_latZero" ->
         NestedListing(NestedAddress(Zip), Num(0), Num(-95), Text, "ok")
    [] name = "N_noZip" ->
         NestedListing(NestedAddress(Undefined), Num(30), Num(-95), Text, "ok")
    [] name = "N_noCoords" ->
         NestedListing(NestedAddress(Zip), Undefined, Undefined, Undefined, "ok")
    [] name = "N_numDescription" ->
         NestedListing(NestedAddress(Zip), Num(30), Num(-95), Num(42), "ok")
    [] name = "N_markerThrows" ->
         NestedListing(NestedAddress(Zip), Num(29), Num(-94), Text, "markerThrows")
    [] name = "F_hit" ->
         FlatListing(OakRd, Undefined, Undefined, "hit", "ok")
    [] name = "F_missWithCoords" ->
         FlatListing(OakRd, Num(30), Num(-95), "miss", "ok")
    [] name = "F_noAddress" ->
         FlatListing(Undefined, Undefined, Undefined, "hit", "ok")
    [] name = "F_markerThrows" ->
         FlatListing(OakRd, Undefined, Undefined, "hit", "markerThrows")
    [] name = "F_popupThrows" ->
         FlatListing(OakRd, Undefined, Undefined, "hit", "popupThrows")

\* The answers the geocoding service can give for a listing's address.
GeoAnswers(house) == IF house.geo = "hit" THEN {GeoHit} ELSE {GeoEmpty, GeoError}

ListingsOf(v) == IF v = "nested" THEN NestedListings ELSE FlatListings

\* Object.entries(props.houses): the entries in order; the key of an entry is
\* its position.
HousesOf(v) == UNION { [1..n -> ListingsOf(v)] : n \in 0..MaxHouses }

\* -------------------------------------------------------------- state ---
VARIABLES
  variant,        \* which component the page is built from
  apiKey,         \* import.meta.env.VITE_GOOGLE_API_KEY is set
  houses,         \* props.houses, as Object.entries (listings by name)
  sdkLoaded,      \* window.google.maps.marker is defined
  thread,         \* the session whose synchronous code is running: {s}, or Idle
  pc,             \* per session: position of its mount continuation
  dom,            \* per session: its template (#map) is in the document
  disposed,       \* per session: onUnmounted ran
  error,          \* per session: error.value
  skippedHouses,  \* per session: skippedHouses.value
  successCount,   \* per session: successCount.value
  mapLoaded,      \* per session: mapLoaded.value
  googleMap,      \* per session: NoMap or the engine instance
  markers,        \* per session: the marker collection (indices into created)
  created,        \* per session: every marker object it constructed
  idx,            \* per session: position of the for loop (0: pass not begun)
  bounds,         \* per session: coordinates the LatLngBounds was extended by
  fitCalls,       \* per session: arguments of the fitBounds calls on an engine
  lookups,        \* per session: geocoding requests issued
  selectedMapType,\* per session: selectedMapType.value (the dropdown)
  arg,            \* the argument of the utility function under study
  result,         \* what the utility function returned for arg
  applied,        \* which utility function was applied ("none": not yet)
  fetch           \* App.vue: the request for the listing data ("none": the
                  \* component is given its input directly)

vars == << variant, apiKey, houses, sdkLoaded, thread, pc, dom, disposed, error,
           skippedHouses, successCount, mapLoaded, googleMap, markers, created,
           idx, bounds, fitCalls, lookups, selectedMapType, arg, result, applied,
           fetch >>

\* The variables of the utility functions (escapeHtml, normalizeAddress).
utilVars == << arg, result, applied >>

\* The value of entry i of props.houses.
House(i) == Listing(houses[i])

ErrMissingKey == "Map configuration error: Missing API key."
ErrNoContainer == "Map container not found."
ErrInitFailed == "Failed to initialize map."
ErrNoHouses == "No houses provided."
ErrNoneDisplayed == "No houses could be displayed on the map."
ErrLoadFailed == "Failed to load map: Failed to load Google Maps API."

\* <script setup>: the state of the page after construction of every
\* component instance, but for the input.
Setup ==
  /\ variant \in {"nested", "flat"}
  /\ apiKey \in BOOLEAN
  /\ sdkLoaded = FALSE
  /\ thread = Idle
  /\ pc = [s \in Sessions |-> "setup"]
  /\ dom = [s \in Sessions |-> FALSE]
  /\ disposed = [s \in Sessions |-> FALSE]
  /\ error = [s \in Sessions |-> IF apiKey THEN "" ELSE ErrMissingKey]
  /\ skippedHouses = [s \in Sessions |-> <<>>]
  /\ successCount = [s \in Sessions |-> 0]
  /\ mapLoaded = [s \in Sessions |-> FALSE]
  /\ googleMap = [s \in Sessions |-> NoMap]
  /\ markers = [s \in Sessions |-> <<>>]
  /\ created = [s \in Sessions |-> <<>>]
  /\ idx = [s \in Sessions |-> 0]
  /\ bounds = [s \in Sessions |-> <<>>]
  /\ fitCalls = [s \in Sessions |-> <<>>]
  /\ lookups = [s \in Sessions |-> <<>>]
  /\ selectedMapType = [s \in Sessions |-> "roadmap"]

\* No utility function is under study.
NoUtil ==
  /\ arg = Undefined
  /\ result = Undefined
  /\ applied = "none"

\* The page with the listings each component is written for.
Init ==
  /\ Setup
  /\ fetch = "none"
  /\ houses \in HousesOf(variant)
  /\ NoUtil


\* ------------------------------------------------------------ initMap ---
\* document.getElementById('map'): some mounted instance's #map element.
MapElementPresent == \E t \in Sessions : dom[t]

\* initMap() with a catch that sets no message.
initMapSilentCatch(s, ctorThrows) ==
  IF ~MapElementPresent
  THEN [googleMap |-> googleMap[s], mapLoaded |-> mapLoaded[s], error |-> ErrNoContainer]
  ELSE IF ctorThrows
       THEN [googleMap |-> googleMap[s], mapLoaded |-> mapLoaded[s], error |-> error[s]]
       ELSE [googleMap |-> "roadmap", mapLoaded |-> TRUE, error |-> error[s]]

\* initMap(): ctorThrows is whether `new google.maps.Map` throws. The engine
\* instance is represented by its base map type.
initMap(s, ctorThrows) ==
  IF ~MapElementPresent
  THEN [googleMap |-> googleMap[s], mapLoaded |-> mapLoaded[s], error |-> ErrNoContainer]
  ELSE IF ctorThrows
       THEN [googleMap |-> googleMap[s], mapLoaded |-> mapLoaded[s], error |-> ErrInitFailed]
       ELSE [googleMap |-> "roadmap", mapLoaded |-> TRUE, error |-> error[s]]

\* ----------------------------------------------------- addHousesToMap ---
\* PlaceMarker with successCount.value++ moved up, next to markers.push.
PlaceMarkerCountsAtPush(s, zpid, coords, title, markerThrows, popupThrows) ==
  LET marker == [glyph |-> successCount[s] + 1,
                 position |-> coords,
                 map |-> IF googleMap[s] = NoMap THEN NoMap ELSE "engine",
                 title |-> title,
                 listeners |-> IF popupThrows THEN 0 ELSE 1,
                 listing |-> zpid,
                 afterDispose |-> disposed[s]]
  IN IF markerThrows
     THEN [created |-> created[s], markers |-> markers[s],
           bounds |-> bounds[s], successCount |-> successCount[s]]
     ELSE [created |-> Append(created[s], marker),
           markers |-> Append(markers[s], Len(created[s]) + 1),
           bounds |-> IF popupThrows THEN bounds[s] ELSE Append(bounds[s], coords),
           successCount |-> successCount[s] + 1]

\* The part of one loop iteration inside try { ... } catch: constructs pin,
\* marker, popup and listener for listing zpid at coords. A throw of
\* PinElement / AdvancedMarkerElement (markerThrows) leaves nothing; a throw
\* after markers.push (popupThrows: escapeHtml, InfoWindow, addListener)
\* leaves the marker in the collection. The catch only logs.
PlaceMarker(s, zpid, coords, title, markerThrows, popupThrows) ==
  LET marker == [glyph |-> successCount[s] + 1,
                 position |-> coords,
                 map |-> IF googleMap[s] = NoMap THEN NoMap ELSE "engine",
                 title |-> title,
                 listeners |-> IF popupThrows THEN 0 ELSE 1,
                 listing |-> zpid,
                 afterDispose |-> disposed[s]]
  IN IF markerThrows
     THEN [created |-> created[s], markers |-> markers[s],
           bounds |-> bounds[s], successCount |-> successCount[s]]
     ELSE [created |-> Append(created[s], marker),
           markers |-> Append(markers[s], Len(created[s]) + 1),
           bounds |-> IF popupThrows THEN bounds[s] ELSE Append(bounds[s], coords),
           successCount |-> IF popupThrows THEN successCount[s] ELSE successCount[s] + 1]

\* The address test without its postal-code disjunct.
InvalidNestedAddressNoZip(house) ==
  LET address == Field(house, "address")
  IN \/ ~Truthy(Field(address, "streetAddress"))
     \/ ~Truthy(Field(address, "city"))
     \/ ~Truthy(Field(address, "state"))

\* HouseMap.vue: the address test of the loop head.
InvalidNestedAddress(house) ==
  LET address == Field(house, "address")
  IN \/ ~Truthy(Field(address, "streetAddress"))
     \/ ~Truthy(Field(address, "city"))
     \/ ~Truthy(Field(address, "state"))
     \/ ~Truthy(Field(address, "zipcode"))

\* HouseMap.vue: `${streetAddress}, ${city}, ${state} ${zipcode}`
FullAddress(house) ==
  LET address == Field(house, "address")
      Interpolated(v) == IF v.type = "undefined" THEN <<"undefined">> ELSE v.val
  IN Str(Interpolated(Field(address, "streetAddress")) \o <<",", " ">> \o
         Interpolated(Field(address, "city")) \o <<",", " ">> \o
         Interpolated(Field(address, "state")) \o <<" ">> \o
         Interpolated(Field(address, "zipcode")))

\* HouseMap.vue: `house.latitude && house.longitude`
HasCoords(house) ==
  Truthy(Field(house, "latitude")) /\ Truthy(Field(house, "longitude"))

\* HouseMap.vue: escapeHtml(house.description) calls str.replace, which a
\* truthy non-string does not have.
DescriptionThrows(house) ==
  LET description == Field(house, "description")
  IN Truthy(description) /\ ~IsString(description)

SkipInvalid == Str(<<"Invalid or missing address">>)
SkipNoAddress == Str(<<"No address">>)

\* The state a session's pass leaves after one placement attempt.
Placed(s, r) ==
  /\ created' = [created EXCEPT ![s] = r.created]
  /\ markers' = [markers EXCEPT ![s] = r.markers]
  /\ bounds' = [bounds EXCEPT ![s] = r.bounds]
  /\ successCount' = [successCount EXCEPT ![s] = r.successCount]

Skip(s, zpid, address) ==
  /\ skippedHouses' = [skippedHouses EXCEPT ![s] = Append(@, [id |-> zpid, address |-> address])]
  /\ UNCHANGED << created, markers, bounds, successCount >>

\* The iteration of HouseMap.vue reading the listing's fields from the entry
\* itself instead of from its `property`.
IterateNestedReadsEntry(s) ==
  LET zpid == idx[s]
      houseData == House(zpid)
      house == Obj(houseData)
  IN /\ variant = "nested"
     /\ idx' = [idx EXCEPT ![s] = @ + 1]
     /\ IF InvalidNestedAddress(house)
        THEN Skip(s, zpid, SkipInvalid)
        ELSE IF ~HasCoords(house)
             THEN Skip(s, zpid, FullAddress(house))
             ELSE /\ Placed(s, PlaceMarker(s, zpid,
                                [lat |-> Field(house, "latitude"),
                                 lng |-> Field(house, "longitude")],
                                FullAddress(house),
                                houseData.sdk = "markerThrows",
                                DescriptionThrows(house) \/ houseData.sdk = "popupThrows"))
                  /\ UNCHANGED skippedHouses
     /\ UNCHANGED << pc, thread, lookups >>

\* HouseMap.vue: one iteration of the for loop (synchronous).
IterateNested(s) ==
  LET zpid == idx[s]
      houseData == House(zpid)
      house == houseData.property
  IN /\ variant = "nested"
     /\ idx' = [idx EXCEPT ![s] = @ + 1]
     /\ IF InvalidNestedAddress(house)
        THEN Skip(s, zpid, SkipInvalid)
        ELSE IF ~HasCoords(house)
             THEN Skip(s, zpid, FullAddress(house))
             ELSE /\ Placed(s, PlaceMarker(s, zpid,
                                [lat |-> Field(house, "latitude"),
                                 lng |-> Field(house, "longitude")],
                                FullAddress(house),
                                houseData.sdk = "markerThrows",
                                DescriptionThrows(house) \/ houseData.sdk = "popupThrows"))
                  /\ UNCHANGED skippedHouses
     /\ UNCHANGED << pc, thread, lookups >>

\* The head of the iteration with the lookup issued but not awaited.
IterateFlatNoAwait(s) ==
  LET mlsId == idx[s]
      house == House(mlsId)
  IN /\ variant = "flat"
     /\ idx' = [idx EXCEPT ![s] = @ + 1]
     /\ IF ~Truthy(house.address)
        THEN /\ Skip(s, mlsId, SkipNoAddress)
             /\ UNCHANGED << pc, thread, lookups >>
        ELSE /\ lookups' = [lookups EXCEPT ![s] =
                              Append(@, [listing |-> mlsId,
                                         address |-> normalizeAddress(house.address)])]
             /\ UNCHANGED << pc, thread, skippedHouses, created, markers, bounds, successCount >>

\* part_000: the head of one iteration, up to `await geocodeAddress(...)`,
\* which normalizes the address and issues the request.
IterateFlat(s) ==
  LET mlsId == idx[s]
      house == House(mlsId)
  IN /\ variant = "flat"
     /\ IF ~Truthy(house.address)
        THEN /\ Skip(s, mlsId, SkipNoAddress)
             /\ idx' = [idx EXCEPT ![s] = @ + 1]
             /\ UNCHANGED << pc, thread, lookups >>
        ELSE /\ lookups' = [lookups EXCEPT ![s] =
                              Append(@, [listing |-> mlsId,
                                         address |-> normalizeAddress(house.address)])]
             /\ pc' = [pc EXCEPT ![s] = "lookup"]
             /\ thread' = Idle
             /\ UNCHANGED << idx, skippedHouses, created, markers, bounds, successCount >>

\* One iteration of `for (... of houseEntries)`.
Iterate(s) ==
  /\ thread = {s}
  /\ pc[s] = "loop"
  /\ idx[s] <= Len(houses)
  /\ (IterateNested(s) \/ IterateFlat(s))
  /\ UNCHANGED << utilVars, selectedMapType, fetch, variant, apiKey, houses, sdkLoaded, dom, disposed, error,
                  mapLoaded, googleMap, fitCalls >>

\* geocodeAddress taking the last candidate instead of the first.
geocodeResultLast(answer) ==
  IF answer.status = "ok" /\ Len(answer.results) > 0
  THEN <<answer.results[Len(answer.results)]>>
  ELSE <<>>

\* geocodeAddress: the coordinate it returns for the service's answer, as a
\* one-element sequence, or nothing (null).
geocodeResult(answer) ==
  IF answer.status = "ok" /\ Len(answer.results) > 0
  THEN <<answer.results[1]>>
  ELSE <<>>

\* part_000: the lookup settles and the iteration goes on after the await.
LookupSettle(s) ==
  LET mlsId == idx[s]
      house == House(mlsId)
  IN /\ thread = Idle
     /\ pc[s] = "lookup"
     /\ \E answer \in GeoAnswers(house) :
          LET coords == geocodeResult(answer)
          IN IF coords = <<>>
             THEN Skip(s, mlsId, house.address)
             ELSE /\ Placed(s, PlaceMarker(s, mlsId, coords[1], house.address,
                                           house.sdk = "markerThrows",
                                           house.sdk = "popupThrows"))
                  /\ UNCHANGED skippedHouses
     /\ idx' = [idx EXCEPT ![s] = @ + 1]
     /\ pc' = [pc EXCEPT ![s] = "loop"]
     /\ thread' = {s}
     /\ UNCHANGED << utilVars, selectedMapType, fetch, variant, apiKey, houses, sdkLoaded, dom, disposed, error,
                     mapLoaded, googleMap, fitCalls, lookups >>

\* After the loop: fit the viewport or report that nothing was placed.
\* googleMap.fitBounds on a null engine throws; the catch only logs.
Finish(s) ==
  /\ thread = {s}
  /\ pc[s] = "loop"
  /\ idx[s] > Len(houses)
  /\ IF successCount[s] > 0
     THEN /\ fitCalls' = [fitCalls EXCEPT ![s] =
                            IF googleMap[s] # NoMap THEN Append(@, bounds[s]) ELSE @]
          /\ UNCHANGED error
     ELSE /\ error' = [error EXCEPT ![s] = ErrNoneDisplayed]
          /\ UNCHANGED fitCalls
  /\ pc' = [pc EXCEPT ![s] = "done"]
  /\ thread' = Idle
  /\ UNCHANGED << utilVars, selectedMapType, fetch, variant, apiKey, houses, sdkLoaded, dom, disposed, skippedHouses,
                  successCount, mapLoaded, googleMap, markers, created, idx,
                  bounds, lookups >>

\* ---------------------------------------------------------- onMounted ---
\* The continuation of onMounted after `await loadGoogleMapsApi()`:
\* initMap(), then addHousesToMap() up to its loop.
Continue(s, ctorThrows) ==
  LET r == initMap(s, ctorThrows)
  IN /\ googleMap' = [googleMap EXCEPT ![s] = r.googleMap]
     /\ mapLoaded' = [mapLoaded EXCEPT ![s] = r.mapLoaded]
     /\ IF Len(houses) = 0
        THEN /\ error' = [error EXCEPT ![s] = ErrNoHouses]
             /\ pc' = [pc EXCEPT ![s] = "empty"]
             /\ thread' = Idle
             /\ UNCHANGED << successCount, skippedHouses, idx, bounds >>
        ELSE /\ error' = [error EXCEPT ![s] = r.error]
             /\ successCount' = [successCount EXCEPT ![s] = 0]
             /\ skippedHouses' = [skippedHouses EXCEPT ![s] = <<>>]
             /\ bounds' = [bounds EXCEPT ![s] = <<>>]
             /\ idx' = [idx EXCEPT ![s] = 1]
             /\ pc' = [pc EXCEPT ![s] = "loop"]
             /\ thread' = {s}

\* onMounted without `if (!apiKey) return`.
OnMountedIgnoresKey(s) ==
  /\ thread = Idle
  /\ pc[s] = "setup"
  /\ \A t \in Sessions : t < s => pc[t] # "setup"
  /\ dom' = [dom EXCEPT ![s] = TRUE]
  /\ IF sdkLoaded
     THEN \E ctorThrows \in BOOLEAN : Continue(s, ctorThrows)
     ELSE /\ pc' = [pc EXCEPT ![s] = "loading"]
          /\ UNCHANGED << thread, error, googleMap, mapLoaded, successCount,
                          skippedHouses, idx, bounds >>
  /\ UNCHANGED << utilVars, selectedMapType, fetch, variant, apiKey, houses, sdkLoaded, disposed, markers, created,
                  fitCalls, lookups >>

\* onMounted: the hook runs once the template is in the document.
OnMounted(s) ==
  /\ thread = Idle
  /\ pc[s] = "setup"
  /\ \A t \in Sessions : t < s => pc[t] # "setup"
  /\ dom' = [dom EXCEPT ![s] = TRUE]
  /\ IF ~apiKey
     THEN /\ pc' = [pc EXCEPT ![s] = "noKey"]
          /\ UNCHANGED << thread, error, googleMap, mapLoaded, successCount,
                          skippedHouses, idx, bounds >>
     ELSE IF sdkLoaded
          THEN \E ctorThrows \in BOOLEAN : Continue(s, ctorThrows)
          ELSE /\ pc' = [pc EXCEPT ![s] = "loading"]
               /\ UNCHANGED << thread, error, googleMap, mapLoaded, successCount,
                               skippedHouses, idx, bounds >>
  /\ UNCHANGED << utilVars, selectedMapType, fetch, variant, apiKey, houses, sdkLoaded, disposed, markers, created,
                  fitCalls, lookups >>

\* The injected script loaded: its callback resolves the promise and the
\* mount continuation runs.
ScriptLoad(s) ==
  /\ thread = Idle
  /\ pc[s] = "loading"
  /\ sdkLoaded' = TRUE
  /\ \E ctorThrows \in BOOLEAN : Continue(s, ctorThrows)
  /\ UNCHANGED << utilVars, selectedMapType, fetch, variant, apiKey, houses, dom, disposed, markers, created,
                  fitCalls, lookups >>

\* script.onerror with a mount continuation that goes on to initMap() after
\* the rejection.
ScriptErrorThenInit(s) ==
  /\ thread = Idle
  /\ pc[s] = "loading"
  /\ error' = [error EXCEPT ![s] = ErrLoadFailed]
  /\ pc' = [pc EXCEPT ![s] = "failed"]
  /\ googleMap' = [googleMap EXCEPT ![s] = initMap(s, FALSE).googleMap]
  /\ mapLoaded' = [mapLoaded EXCEPT ![s] = initMap(s, FALSE).mapLoaded]
  /\ UNCHANGED << utilVars, selectedMapType, fetch, variant, apiKey, houses, sdkLoaded, thread, dom, disposed,
                  skippedHouses, successCount, markers,
                  created, idx, bounds, fitCalls, lookups >>

\* script.onerror: rejects, sets the load message; the catch of onMounted
\* then overwrites it.
ScriptError(s) ==
  /\ thread = Idle
  /\ pc[s] = "loading"
  /\ error' = [error EXCEPT ![s] = ErrLoadFailed]
  /\ pc' = [pc EXCEPT ![s] = "failed"]
  /\ UNCHANGED << utilVars, selectedMapType, fetch, variant, apiKey, houses, sdkLoaded, thread, dom, disposed,
                  skippedHouses, successCount, mapLoaded, googleMap, markers,
                  created, idx, bounds, fitCalls, lookups >>

\* -------------------------------------------------------- onUnmounted ---
\* The hook without `marker.map = null`.
TeardownKeepsMap(ms, cr, gm, sdk) ==
  IF ms # <<>> /\ ~sdk
  THEN [threw |-> TRUE, markers |-> ms, created |-> cr, googleMap |-> gm]
  ELSE [threw |-> FALSE,
        markers |-> <<>>,
        created |-> [k \in DOMAIN cr |->
                       IF \E j \in DOMAIN ms : ms[j] = k
                       THEN [cr[k] EXCEPT !.listeners = 0]
                       ELSE cr[k]],
        googleMap |-> NoMap]

\* The body of the onUnmounted hook on the state (ms: the collection,
\* cr: the marker objects): for each marker clearInstanceListeners and
\* map = null, then markers = [] and googleMap = null. `google` is
\* dereferenced once per marker: it throws when the SDK is undefined, and
\* the hook then ends before any assignment.
Teardown(ms, cr, gm, sdk) ==
  IF ms # <<>> /\ ~sdk
  THEN [threw |-> TRUE, markers |-> ms, created |-> cr, googleMap |-> gm]
  ELSE [threw |-> FALSE,
        markers |-> <<>>,
        created |-> [k \in DOMAIN cr |->
                       IF \E j \in DOMAIN ms : ms[j] = k
                       THEN [cr[k] EXCEPT !.listeners = 0, !.map = NoMap]
                       ELSE cr[k]],
        googleMap |-> NoMap]

OnUnmounted(s) ==
  LET r == Teardown(markers[s], created[s], googleMap[s], sdkLoaded)
  IN /\ thread = Idle
     /\ dom[s]
     /\ ~disposed[s]
     /\ dom' = [dom EXCEPT ![s] = FALSE]
     /\ disposed' = [disposed EXCEPT ![s] = TRUE]
     /\ markers' = [markers EXCEPT ![s] = r.markers]
     /\ created' = [created EXCEPT ![s] = r.created]
     /\ googleMap' = [googleMap EXCEPT ![s] = r.googleMap]
     /\ UNCHANGED << utilVars, selectedMapType, fetch, variant, apiKey, houses, sdkLoaded, thread, pc, error,
                     skippedHouses, successCount, mapLoaded, idx, bounds,
                     fitCalls, lookups >>

Next ==
  \E s \in Sessions :
    \/ OnMounted(s)
    \/ ScriptLoad(s)
    \/ ScriptError(s)
    \/ Iterate(s)
    \/ LookupSettle(s)
    \/ Finish(s)
    \/ OnUnmounted(s)

Spec == Init /\ [][Next]_vars


\* ============================================================ claims ===
\* Listing i resolves to a coordinate: HouseMap.vue needs a complete address
\* and truthy embedded coordinates, part_000 an address the service knows.
ResolvesOk(i) ==
  IF variant = "nested"
  THEN ~InvalidNestedAddress(House(i).property) /\ HasCoords(House(i).property)
  ELSE Truthy(House(i).address) /\ House(i).geo = "hit"

\* Nothing throws while the marker, popup and listener of listing i are built.
PlacesOk(i) ==
  /\ House(i).sdk = "ok"
  /\ variant = "nested" => ~DescriptionThrows(House(i).property)

\* The listings whose loop iteration has completed in session s.
Processed(s) == 1..(idx[s] - 1)

SkippedIds(s) == { skippedHouses[s][j].id : j \in DOMAIN skippedHouses[s] }
MarkersOf(s, i) == { k \in DOMAIN created[s] : created[s][k].listing = i }
LookupsOf(s, i) == { j \in DOMAIN lookups[s] : lookups[s][j].listing = i }

\* C1: once a pass has begun it is never aborted: it is in its loop, awaiting
\* a lookup or completed, never in the catch of onMounted; successCount is
\* the number of processed listings that resolved and were placed without a
\* throw; and the pass ends only after the last listing.
C1_PassNotAborted ==
  \A s \in Sessions :
    idx[s] >= 1 =>
      /\ pc[s] \in {"loop", "lookup", "done"}
      /\ successCount[s] =
           Cardinality({ i \in Processed(s) : ResolvesOk(i) /\ PlacesOk(i) })
      /\ pc[s] = "done" => idx[s] = Len(houses) + 1

\* A completed pass over two listings whose first failed (no resolution, or
\* a throw during placement) and whose second was placed.
C1_Witness ==
  \E s \in Sessions :
    /\ pc[s] = "done"
    /\ Len(houses) = 2
    /\ ~(ResolvesOk(1) /\ PlacesOk(1))
    /\ ResolvesOk(2) /\ PlacesOk(2)
    /\ successCount[s] = 1

\* C2: at the end of a completed pass every listing is either counted as a
\* success or recorded as a skip (a placement that throws is recorded too).
C2_EveryListingAccounted ==
  \A s \in Sessions :
    pc[s] = "done" => successCount[s] + Len(skippedHouses[s]) = Len(houses)

\* C3: at every listing boundary and at the end of a pass of a live session,
\* the marker collection holds as many markers as successCount counts.
C3_MarkersMatchCount ==
  \A s \in Sessions :
    (pc[s] \in {"loop", "done"} /\ ~disposed[s]) =>
      Len(markers[s]) = successCount[s]

\* The latitude and longitude a listing carries, where its shape puts them.
Latitude(i) ==
  IF House(i).property.type = "object"
  THEN Field(House(i).property, "latitude") ELSE House(i).latitude
Longitude(i) ==
  IF House(i).property.type = "object"
  THEN Field(House(i).property, "longitude") ELSE House(i).longitude
CarriesCoords(i) ==
  Latitude(i).type # "undefined" /\ Longitude(i).type # "undefined"

\* C4: a processed listing that carries a latitude and a longitude (any
\* values, any address fields) caused no lookup, and, the SDK accepting its
\* marker, has a marker at exactly the embedded coordinate.
C4_EmbeddedCoordsUsed ==
  \A s \in Sessions : \A i \in Processed(s) :
    (CarriesCoords(i) /\ House(i).sdk = "ok") =>
      /\ LookupsOf(s, i) = {}
      /\ \E k \in MarkersOf(s, i) :
           created[s][k].position = [lat |-> Latitude(i), lng |-> Longitude(i)]

\* initMap ran in session s and did not produce an engine.
InitError(s) ==
  /\ pc[s] \in {"empty", "loop", "lookup", "done"}
  /\ ~mapLoaded[s]

\* C5: after a failed engine instantiation no listing is processed, no marker
\* is created, successCount stays 0 and the viewport fit is never invoked.
C5_InitErrorAborts ==
  \A s \in Sessions :
    InitError(s) =>
      /\ skippedHouses[s] = <<>>
      /\ lookups[s] = <<>>
      /\ created[s] = <<>>
      /\ successCount[s] = 0
      /\ fitCalls[s] = <<>>

\* C6: once a session is disposed its marker collection is empty and none of
\* its markers was created after the disposal.
C6_NoMarkerAfterDispose ==
  \A s \in Sessions :
    disposed[s] =>
      /\ markers[s] = <<>>
      /\ \A k \in DOMAIN created[s] : ~created[s][k].afterDispose

\* C7: a disposed session holds no engine instance.
C7_NoEngineAfterDispose ==
  \A s \in Sessions : disposed[s] => googleMap[s] = NoMap

\* C8: the teardown hook, run in any reachable state of any session, does not
\* throw, detaches the listeners and clears the map of every marker of the
\* collection, empties the collection and releases the engine; run again it
\* does not throw and changes nothing; and the unmount step leaves the
\* session in exactly that state.
C8_TeardownSafe ==
  \A s \in Sessions :
    LET r == Teardown(markers[s], created[s], googleMap[s], sdkLoaded)
        again == Teardown(r.markers, r.created, r.googleMap, sdkLoaded)
    IN /\ ~r.threw
       /\ r.markers = <<>>
       /\ r.googleMap = NoMap
       /\ \A j \in DOMAIN markers[s] :
            /\ r.created[markers[s][j]].listeners = 0
            /\ r.created[markers[s][j]].map = NoMap
       /\ again = r
       /\ (disposed[s] /\ ~(\E k \in DOMAIN created[s] : created[s][k].afterDispose)) =>
            /\ markers[s] = <<>>
            /\ \A k \in DOMAIN created[s] :
                 created[s][k].listeners = 0 /\ created[s][k].map = NoMap

\* A session torn down after it placed a marker on its engine with a click
\* listener: the marker is now detached and the collection empty.
C8_Witness ==
  \E s \in Sessions :
    /\ disposed[s]
    /\ mapLoaded[s]
    /\ markers[s] = <<>>
    /\ googleMap[s] = NoMap
    /\ \E k \in DOMAIN created[s] :
         /\ ~created[s][k].afterDispose
         /\ PlacesOk(created[s][k].listing)
         /\ created[s][k].listeners = 0
         /\ created[s][k].map = NoMap

\* C9: after a pass of a live session the markers of the collection carry
\* the glyphs 1..successCount, each once, in input order.
C9_GlyphsAreSequence ==
  \A s \in Sessions :
    (pc[s] = "done" /\ ~disposed[s]) =>
      /\ Len(markers[s]) = successCount[s]
      /\ \A j \in DOMAIN markers[s] : created[s][markers[s][j]].glyph = j

\* Listing i has no embedded coordinates and a usable address.
UsableAddress(i) ==
  IF variant = "nested"
  THEN ~InvalidNestedAddress(House(i).property)
  ELSE Truthy(House(i).address)
AddressOf(i) ==
  IF variant = "nested" THEN FullAddress(House(i).property) ELSE House(i).address

\* The normalized form of the addresses of the listings: "Rd" is expanded.
Normalized(address) ==
  IF address = OakRd THEN Str(<<"12", " ", "Oak", " ", "Road">>) ELSE address

\* What C10 says of a processed listing i of session s that is resolved by
\* its address: one lookup of the normalized address; on a hit the listing
\* is not skipped and its marker (there is one unless the marker constructor
\* throws) is at the first result; on a miss it is skipped, without marker.
ResolvedByLookup(s, i) ==
  /\ Cardinality(LookupsOf(s, i)) = 1
  /\ \A j \in LookupsOf(s, i) : lookups[s][j].address = Normalized(AddressOf(i))
  /\ House(i).geo = "hit" =>
       /\ i \notin SkippedIds(s)
       /\ House(i).sdk # "markerThrows" => MarkersOf(s, i) # {}
       /\ \A k \in MarkersOf(s, i) : created[s][k].position = GeoHit.results[1]
  /\ House(i).geo = "miss" =>
       /\ i \in SkippedIds(s)
       /\ MarkersOf(s, i) = {}

Missing(v) == v.type = "undefined" \/ v = Str(<<>>)

\* Listing i has no address material where its component looks for it: the
\* free-text address of a flat record is absent, or the address object of a
\* nested record or one of its four components is.
NoAddressMaterial(i) ==
  IF variant = "nested"
  THEN LET address == Field(House(i).property, "address")
       IN \/ address.type = "undefined"
          \/ \E f \in {"streetAddress", "city", "state", "zipcode"} :
               Missing(Field(address, f))
  ELSE Missing(House(i).address)

\* C11: a processed listing with no address material has exactly one skip
\* record, caused no geocoding lookup and has no marker.
C11_NoAddressSkipped ==
  \A s \in Sessions : \A i \in Processed(s) :
    NoAddressMaterial(i) =>
      /\ Cardinality({ j \in DOMAIN skippedHouses[s] :
                         skippedHouses[s][j].id = i }) = 1
      /\ \A j \in DOMAIN skippedHouses[s] :
           skippedHouses[s][j].id = i =>
             skippedHouses[s][j].address \in {SkipInvalid, SkipNoAddress}
      /\ LookupsOf(s, i) = {}
      /\ MarkersOf(s, i) = {}

\* A completed pass whose first listing had no address material (and, in the
\* nested component, embedded coordinates) and whose second was placed.
C11_Witness ==
  \E s \in Sessions :
    /\ pc[s] = "done"
    /\ Len(houses) = 2
    /\ NoAddressMaterial(1)
    /\ variant = "nested" => CarriesCoords(1)
    /\ 1 \in SkippedIds(s)
    /\ MarkersOf(s, 2) # {}

\* ------------------------------------------------------------ C12 ---
\* C12: without an API credential every session is in ConfigError for good:
\* its error message is the configuration message; mounting injects no SDK
\* script (no session awaits one and the SDK never loads); no engine is
\* instantiated, no listing is processed and no lookup is issued.
C12_NoKeyIsTerminal ==
  ~apiKey =>
    /\ ~sdkLoaded
    /\ \A s \in Sessions :
         /\ error[s] = ErrMissingKey
         /\ pc[s] \in {"setup", "noKey"}
         /\ googleMap[s] = NoMap /\ ~mapLoaded[s]
         /\ idx[s] = 0 /\ skippedHouses[s] = <<>> /\ successCount[s] = 0
         /\ created[s] = <<>> /\ markers[s] = <<>>
         /\ lookups[s] = <<>> /\ fitCalls[s] = <<>>

\* Without a credential, over a non-empty input, one session was mounted and
\* unmounted again and another is mounted.
C12_Witness ==
  /\ ~apiKey
  /\ Len(houses) > 0
  /\ \E s, t \in Sessions :
       /\ pc[s] = "noKey" /\ disposed[s]
       /\ pc[t] = "noKey" /\ dom[t] /\ ~disposed[t]

\* ------------------------------------------------------------ C13 ---
\* C13: a session whose SDK script failed to load is in LoadError for good:
\* its error message is set and stays as it is, it has no engine, shows no
\* map, has processed no listing and issued no lookup, and it never leaves
\* that state.
C13_LoadErrorIsTerminal ==
  /\ [](\A s \in Sessions :
          pc[s] = "failed" =>
            /\ error[s] = ErrLoadFailed /\ error[s] # ""
            /\ googleMap[s] = NoMap /\ ~mapLoaded[s]
            /\ idx[s] = 0 /\ skippedHouses[s] = <<>> /\ successCount[s] = 0
            /\ created[s] = <<>> /\ markers[s] = <<>>
            /\ lookups[s] = <<>> /\ fitCalls[s] = <<>>)
  /\ [][\A s \in Sessions :
          pc[s] = "failed" => pc'[s] = "failed" /\ error'[s] = error[s]]_vars

\* The script of one session failed to load and that session was unmounted
\* afterwards, while the script of another session loaded and its pass over
\* a non-empty input completed.
C13_Witness ==
  \E s, t \in Sessions :
    /\ pc[s] = "failed" /\ disposed[s]
    /\ pc[t] = "done" /\ successCount[t] > 0

\* ------------------------------------------------------------ C14 ---
\* The coordinates of the listings of a completed pass that were placed
\* without a throw, in input order.
RECURSIVE SuccessfulCoords(_, _)
SuccessfulCoords(s, n) ==
  IF n = 0 THEN <<>>
  ELSE LET rest == SuccessfulCoords(s, n - 1)
       IN IF ResolvesOk(n) /\ PlacesOk(n)
          THEN Append(rest, IF variant = "nested"
                            THEN [lat |-> Latitude(n), lng |-> Longitude(n)]
                            ELSE GeoHit.results[1])
          ELSE rest

\* C14: at the end of a pass (over a non-empty input) with at least one
\* successful placement fitBounds was invoked exactly once, over the bounds
\* extended by exactly the coordinates of the successful placements; at the
\* end of a pass without one it was never invoked and the message that no
\* houses could be displayed is set.
C14_FitBoundsOnce ==
  \A s \in Sessions :
    pc[s] = "done" =>
      /\ successCount[s] > 0 =>
           fitCalls[s] = << SuccessfulCoords(s, Len(houses)) >>
      /\ successCount[s] = 0 =>
           fitCalls[s] = <<>> /\ error[s] = ErrNoneDisplayed

\* ------------------------------------------------------------ C15 ---
\* The sessions whose injected SDK script has neither loaded nor failed.
InFlight == { s \in Sessions : pc[s] = "loading" }

\* C15: at most one SDK bootstrap (an injected script awaiting its callback)
\* is in flight at a time, whatever the interleaving of the mounting
\* sessions; and a session that mounts when the SDK is present goes on
\* at once, without injecting a script.
C15_OneBootstrapInFlight ==
  /\ [](Cardinality(InFlight) <= 1)
  /\ [][\A s \in Sessions :
          (sdkLoaded /\ pc[s] = "setup" /\ pc'[s] # "setup") =>
            pc'[s] \in {"noKey", "empty", "loop"}]_vars

\* ==================================================== map-type control ===
\* HouseMap.vue: the <option> values of the map-type dropdown.
MapTypes == {"roadmap", "satellite", "hybrid", "terrain"}

\* updateMapType without the call of setMapTypeId.
updateMapTypeNoCall(gm, selected) == gm

\* updateMapType(): the engine (its map type) afterwards.
updateMapType(gm, selected) == IF gm # NoMap THEN selected ELSE gm

\* The user picks another option t in the dropdown of session s: v-model
\* assigns selectedMapType, then @change runs updateMapType. The dropdown is
\* in the template of HouseMap.vue only, and in the document while the
\* component is mounted.
UpdateMapType(s, t) ==
  /\ thread = Idle
  /\ variant = "nested"
  /\ dom[s] /\ ~disposed[s]
  /\ t # selectedMapType[s]
  /\ selectedMapType' = [selectedMapType EXCEPT ![s] = t]
  /\ googleMap' = [googleMap EXCEPT ![s] = updateMapType(@, t)]
  /\ UNCHANGED << utilVars, fetch, variant, apiKey, houses, sdkLoaded, thread, pc, dom, disposed, error,
                  skippedHouses, successCount, mapLoaded, markers, created,
                  idx, bounds, fitCalls, lookups >>

\* The listings the sessions with a map-type control are run on.
MapTypeListings == {"N_ok", "N_noCoords", "F_hit"}

InitMapType ==
  /\ Setup
  /\ fetch = "none"
  /\ houses \in { h \in HousesOf(variant) :
                    \A i \in DOMAIN h : h[i] \in MapTypeListings }
  /\ NoUtil

NextMapType ==
  \/ Next
  \/ \E s \in Sessions : \E t \in MapTypes : UpdateMapType(s, t)

SpecMapType == InitMapType /\ [][NextMapType]_vars

\* ------------------------------------------------------------ C16 ---
\* C16: in a session with an engine, switching the map type sets the
\* engine's map type to the selected value in the same step; doing it again
\* with the same value changes nothing; and the step leaves the marker
\* collection, the marker objects, successCount, the skipped list and the
\* error message of every session as they are.
C16_UpdateMapType ==
  /\ [](\A s \in Sessions : \A t \in MapTypes :
          googleMap[s] # NoMap =>
            /\ updateMapType(googleMap[s], t) = t
            /\ updateMapType(updateMapType(googleMap[s], t), t) =
                 updateMapType(googleMap[s], t))
  /\ [][(selectedMapType' # selectedMapType) =>
          /\ \A s \in Sessions :
               (selectedMapType'[s] # selectedMapType[s] /\ googleMap[s] # NoMap)
                 => googleMap'[s] = selectedMapType'[s]
          /\ UNCHANGED << markers, created, successCount, skippedHouses, error >>]_vars

\* A session that completed a pass with a marker and a skipped listing shows
\* the satellite map the user selected.
C16_Witness ==
  \E s \in Sessions :
    /\ pc[s] = "done"
    /\ markers[s] # <<>> /\ skippedHouses[s] # <<>>
    /\ selectedMapType[s] = "satellite"
    /\ googleMap[s] = "satellite"

\* ======================================================== input shapes ===
\* One well-formed listing of each shape: a nested record (the listing under
\* `property`, with address components and coordinates) and a flat record
\* (a free-text address at top level, known to the geocoding service).
ShapeListings == {"N_ok", "F_hit"}

\* Either component, run on an input that mixes the two shapes.
InitShapes ==
  /\ Setup
  /\ fetch = "none"
  /\ houses \in UNION { [1..n -> ShapeListings] : n \in 1..MaxHouses }
  /\ NoUtil

SpecShapes == InitShapes /\ [][Next]_vars

\* ------------------------------------------------------------ C17 ---
IsNested(i) == House(i).property.type = "object"

\* Session s recorded listing i as skipped for a missing or invalid address.
SkippedForAddress(s, i) ==
  \E j \in DOMAIN skippedHouses[s] :
    /\ skippedHouses[s][j].id = i
    /\ skippedHouses[s][j].address \in {SkipInvalid, SkipNoAddress}

\* C17 as claimed: both shapes are supported: no processed well-formed
\* listing, nested or flat, is skipped for a missing or invalid address.
C17_BothShapesSupported ==
  \A s \in Sessions : \A i \in Processed(s) : ~SkippedForAddress(s, i)

\* C17, amended: each component supports one shape. A processed well-formed
\* listing of the component's own shape (nested for HouseMap.vue, flat for
\* part_000) is not skipped for its address; one of the other shape is
\* skipped for a missing address, without lookup and without marker.
C17_OneShapePerComponent ==
  \A s \in Sessions : \A i \in Processed(s) :
    IF IsNested(i) <=> variant = "nested"
    THEN ~SkippedForAddress(s, i)
    ELSE /\ SkippedForAddress(s, i)
         /\ LookupsOf(s, i) = {}
         /\ MarkersOf(s, i) = {}

\* A completed pass over a nested and a flat listing: one was placed, the
\* other skipped for its address.
C17_Witness ==
  \E s \in Sessions :
    /\ pc[s] = "done"
    /\ \E i, j \in Processed(s) :
         /\ IsNested(i) /\ ~IsNested(j)
         /\ MarkersOf(s, i) # {} <=> variant = "nested"
         /\ MarkersOf(s, j) # {} <=> variant = "flat"
         /\ SkippedForAddress(s, i) <=> variant = "flat"
         /\ SkippedForAddress(s, j) <=> variant = "nested"

\* ========================================================== escapeHtml ===
\* A description is a sequence of characters, of these: the characters
\* escapeHtml names, and a letter.
Backslash == "BACKSLASH"
Quote == "QUOTE"
DoubleQuote == "DOUBLE-QUOTE"
Backtick == "BACKTICK"
Newline == "LF"
Return == "CR"
Chars == {Backslash, Quote, DoubleQuote, Backtick, Newline, Return, "<", ">", "a"}

\* str.replace(/c/g, rep): every occurrence of the character c replaced by
\* the characters rep.
RECURSIVE ReplaceAll(_, _, _)
ReplaceAll(str, c, rep) ==
  IF str = <<>> THEN <<>>
  ELSE (IF Head(str) = c THEN rep ELSE <<Head(str)>>) \o ReplaceAll(Tail(str), c, rep)

\* The placeholder, as one token.
NoDescription == Str(<<"No description available">>)

\* escapeHtml: the chain of replacements, in the order of the source. The
\* last two replace '<' by '<' and '>' by '>'.
escapeHtml(str) ==
  IF ~Truthy(str) THEN NoDescription
  ELSE LET r1 == ReplaceAll(str.val, Backslash, <<Backslash, Backslash>>)
           r2 == ReplaceAll(r1, Quote, <<Backslash, Quote>>)
           r3 == ReplaceAll(r2, DoubleQuote, <<Backslash, DoubleQuote>>)
           r4 == ReplaceAll(r3, Backtick, <<Backslash, Backtick>>)
           r5 == ReplaceAll(r4, Newline, <<" ">>)
           r6 == ReplaceAll(r5, Return, <<>>)
           r7 == ReplaceAll(r6, "<", <<"<">>)
           r8 == ReplaceAll(r7, ">", <<">">>)
       IN Str(r8)

\* house.description: absent, or a string of up to MaxChars characters.
Descriptions ==
  {Undefined} \cup { Str(cs) : cs \in UNION { [1..n -> Chars] : n \in 0..MaxChars } }

InitEscape ==
  /\ Setup
  /\ fetch = "none"
  /\ variant = "nested" /\ apiKey
  /\ houses = <<>>
  /\ arg \in Descriptions
  /\ result = Undefined
  /\ applied = "none"

\* escapeHtml(house.description) in the popup template.
EscapeHtml ==
  /\ applied = "none"
  /\ result' = escapeHtml(arg)
  /\ applied' = "escapeHtml"
  /\ UNCHANGED << arg, selectedMapType, fetch, variant, apiKey, houses, sdkLoaded, thread, pc, dom,
                  disposed, error, skippedHouses, successCount, mapLoaded,
                  googleMap, markers, created, idx, bounds, fitCalls, lookups >>

NextEscape == EscapeHtml

SpecEscape == InitEscape /\ [][NextEscape]_vars

\* ------------------------------------------------------------ C18 ---
\* The number of backslashes that end just before position p of str.
RECURSIVE BackslashesBefore(_, _)
BackslashesBefore(str, p) ==
  IF p > 1 /\ str[p - 1] = Backslash THEN 1 + BackslashesBefore(str, p - 1) ELSE 0

\* The character at position p of str is not escaped: an angle bracket (its
\* escaped form is an entity), or a quote or backtick that an even number of
\* backslashes precedes.
Unescaped(str, p) ==
  \/ str[p] \in {"<", ">"}
  \/ str[p] \in {Quote, DoubleQuote, Backtick} /\ BackslashesBefore(str, p) % 2 = 0

\* C18: the escaped form of a description has no unescaped '<', '>',
\* backtick or quote character and no newline or carriage return; for an
\* empty or absent description it is the placeholder, never the empty string.
C18_EscapeHtmlSafe ==
  applied = "escapeHtml" =>
    IF arg.type = "undefined" \/ arg = Str(<<>>)
    THEN result = NoDescription /\ result # Str(<<>>)
    ELSE \A p \in DOMAIN result.val :
           /\ ~Unescaped(result.val, p)
           /\ result.val[p] \notin {Newline, Return}

\* ==================================================== normalizeAddress ===
\* The tokens of the addresses: table keys in several spellings, a word
\* with a key inside it, a number, a blank and the '#' sign.
AddressTokens ==
  {"Rd", "rd", "Hwy", "Us", "Highway", "CR", "Vz", "Broadway", "5", " ", "#"}

\* A token sequence that is the tokenization of a string: a word is a
\* maximal run of word characters, so no two words are adjacent.
Tokenized(toks) ==
  \A p \in 1..(Len(toks) - 1) : ~(IsWord(toks[p]) /\ IsWord(toks[p + 1]))

\* house.address: absent, or a string of up to MaxTokens tokens.
Addresses ==
  {Undefined} \cup
  { Str(toks) : toks \in { t \in UNION { [1..n -> AddressTokens] : n \in 0..MaxTokens } :
                            Tokenized(t) } }

InitNormalize ==
  /\ Setup
  /\ fetch = "none"
  /\ variant = "flat" /\ apiKey
  /\ houses = <<>>
  /\ arg \in Addresses
  /\ result = Undefined
  /\ applied = "none"

\* normalizeAddress(address) in geocodeAddress.
NormalizeAddress ==
  /\ applied = "none"
  /\ result' = normalizeAddress(arg)
  /\ applied' = "normalizeAddress"
  /\ UNCHANGED << arg, selectedMapType, fetch, variant, apiKey, houses, sdkLoaded, thread, pc, dom,
                  disposed, error, skippedHouses, successCount, mapLoaded,
                  googleMap, markers, created, idx, bounds, fitCalls, lookups >>

NextNormalize == NormalizeAddress

SpecNormalize == InitNormalize /\ [][NextNormalize]_vars

\* ------------------------------------------------------------ C19 ---
\* How often the token t occurs in toks.
Occurrences(toks, t) == Cardinality({ p \in DOMAIN toks : toks[p] = t })

\* C19: in the normalized address no key of the table remains as a whole
\* word (in any letter case) and no '#' remains anywhere; a word that only
\* contains a key is left as it is; an empty or undefined address is
\* returned unchanged.
C19_NoTableTokenRemains ==
  applied = "normalizeAddress" =>
    IF arg.type = "undefined" \/ arg = Str(<<>>)
    THEN result = arg
    ELSE /\ \A k \in DOMAIN replacements : \A p \in DOMAIN result.val :
              ~MatchesAt(result.val, replacements[k].key, p)
         /\ Occurrences(result.val, "#") = 0
         /\ Occurrences(result.val, "Broadway") = Occurrences(arg.val, "Broadway")

\* ------------------------------------------------------------ C20 ---
\* The lookups of session s that have not settled: those of listings whose
\* iteration has not completed.
LookupsInFlight(s) ==
  { j \in DOMAIN lookups[s] : lookups[s][j].listing \notin Processed(s) }

\* The handling of listing i by session s has come to its end: the listing
\* was skipped, or a marker was made for it, or the construction of its
\* marker threw.
Handled(s, i) ==
  \/ i \in SkippedIds(s)
  \/ MarkersOf(s, i) # {}
  \/ House(i).sdk = "markerThrows"

AppSessions == {1}

InitApp ==
  /\ Setup
  /\ variant = "nested"
  /\ fetch = "pending"
  /\ houses = <<>>
  /\ NoUtil

\* App.vue onMounted: the response arrived and is the JSON of a listing
\* collection; houseData.value is assigned, so props.houses changes. The
\* hook of App runs after the hook of its child.
FetchResolve ==
  /\ thread = Idle
  /\ fetch = "pending"
  /\ \A s \in AppSessions : pc[s] # "setup"
  /\ houses' \in HousesOf(variant)
  /\ fetch' = "ok"
  /\ UNCHANGED << utilVars, selectedMapType, variant, apiKey, sdkLoaded, thread, pc, dom,
                  disposed, error, skippedHouses, successCount, mapLoaded,
                  googleMap, markers, created, idx, bounds, fitCalls, lookups >>

\* App.vue onMounted: the request failed, or the response is not ok or not
\* JSON; fetchError.value is set.
FetchFail ==
  /\ thread = Idle
  /\ fetch = "pending"
  /\ \A s \in AppSessions : pc[s] # "setup"
  /\ fetch' = "failed"
  /\ UNCHANGED << utilVars, selectedMapType, variant, apiKey, houses, sdkLoaded, thread, pc,
                  dom, disposed, error, skippedHouses, successCount, mapLoaded,
                  googleMap, markers, created, idx, bounds, fitCalls, lookups >>

\* The template of App.vue: with fetchError set the v-else branch goes and
\* HouseMap is unmounted.
AppUnmount(s) ==
  /\ fetch = "failed"
  /\ OnUnmounted(s)

NextApp ==
  \/ FetchResolve
  \/ FetchFail
  \/ \E s \in AppSessions :
       \/ OnMounted(s)
       \/ ScriptLoad(s)
       \/ ScriptError(s)
       \/ Iterate(s)
       \/ Finish(s)
       \/ AppUnmount(s)

\* Every task of the event loop is run in the end.
SpecApp == InitApp /\ [][NextApp]_vars /\ WF_vars(NextApp)

\* ------------------------------------------------------------ C21 ---
\* The listing collection holds a listing that can be placed.
SomePlaceable == \E i \in DOMAIN houses : ResolvesOk(i) /\ PlacesOk(i)

\* C21: whatever the order of the fetch of App and the SDK bootstrap of
\* HouseMap, once the fetch has succeeded with a placeable listing and the
\* engine is initialized, the session comes to successCount >= 1 without
\* the message that no houses were provided.
C21_FetchOrderIrrelevant ==
  \A s \in AppSessions :
    (fetch = "ok" /\ SomePlaceable /\ mapLoaded[s])
      ~> (successCount[s] >= 1 /\ error[s] # ErrNoHouses)

\* ------------------------------------------------------------ C22 ---
\* C22: whenever a session has an engine, the engine's map type is the
\* selection of the dropdown, also when the selection was changed before
\* the engine was instantiated.
C22_EngineShowsSelection ==
  \A s \in Sessions :
    googleMap[s] # NoMap => googleMap[s] = selectedMapType[s]

\* ================================================== loading indicator ===
\* The sessions of HouseMap.vue, whose template has the indicator, and the
\* listings they are run on when the loading state is studied.
LoadingListings == {"N_ok", "N_noCoords", "N_markerThrows"}

InitLoading ==
  /\ Setup
  /\ fetch = "none"
  /\ variant = "nested"
  /\ houses \in { h \in HousesOf(variant) :
                    \A i \in DOMAIN h : h[i] \in LoadingListings }
  /\ NoUtil

\* The steps of HouseMap.vue (it has no geocoding lookup to settle).
NextLoading ==
  \E s \in Sessions :
    \/ OnMounted(s)
    \/ ScriptLoad(s)
    \/ ScriptError(s)
    \/ Iterate(s)
    \/ Finish(s)
    \/ OnUnmounted(s)

\* An injected script fires its load callback or its error handler in the
\* end, and synchronous code (the loop of a pass, its end) runs on: while
\* one of these steps is possible, one of them is taken.
Settles ==
  WF_vars(\E s \in Sessions :
            ScriptLoad(s) \/ ScriptError(s) \/ Iterate(s) \/ Finish(s))

SpecLoading == InitLoading /\ [][NextLoading]_vars /\ Settles

\* ------------------------------------------------------------ C23 ---
\* The template shows 'Loading...' in session s: v-if="!mapLoaded && !error".
Loading(s) == ~mapLoaded[s] /\ error[s] = ""

\* C23: with a credential, every session that was mounted comes to show no
\* 'Loading...' indicator (mapLoaded is true or the error message is
\* non-empty), and an indicator that is gone is never shown again.
C23_LoadingEnds ==
  /\ \A s \in Sessions : (apiKey /\ pc[s] # "setup") ~> ~Loading(s)
  /\ [][\A s \in Sessions : ~Loading(s) => ~Loading(s)']_vars

\* One session shows its map after a completed pass, without any message;
\* the script of the other failed to load.
C23_Witness ==
  \E s, t \in Sessions :
    /\ apiKey
    /\ pc[s] = "done" /\ mapLoaded[s] /\ error[s] = ""
    /\ pc[t] = "failed" /\ ~mapLoaded[t] /\ error[t] # ""

=============================================================================
